---------------------------- MODULE Spec2Model ----------------------------
(***************************************************************************)
(* Booklet scanner: the registration-number extraction of main.py          *)
(* (preprocess_image_for_ocr, extract_reg_number), create_pdf, the batch   *)
(* workflow main() and the two GUI front ends (gui_o.py, gui.py).          *)
(*                                                                         *)
(* A Python value that may be None is the empty set (None) or a singleton  *)
(* {v}.  A str is a sequence of one-character strings.                     *)
(***************************************************************************)
EXTENDS Integers, Sequences, FiniteSets

VARIABLES
    REG_NUM_ROI,             \* main.py:30, the module-level <<x, y, w, h>>
    image,                   \* argument of the latest extract_reg_number call
    called,                  \* extract_reg_number has been called at least once
    same,                    \* the latest call had the argument of the call before it
    cropped,                 \* the latest call evaluated image[y:y+h, x:x+w]
    ocr_calls,               \* pytesseract.image_to_string calls of the latest call
    text,                    \* what image_to_string returned in the latest call
    ret,                     \* return value of the latest call
    printed,                 \* print() lines of the latest call
    logged,                  \* logging.warning records of the latest call
    wrote,                   \* the latest call invoked cv2.imwrite
    diagFile,                \* content of output/processed_reg_num.png
    ocr_memo,                \* latest <<input, output>> of the OCR engine
    app,                     \* which program runs: "lib", "main", "gui_o", "gui"
    op,                      \* the latest operation of the program
    mock_image_paths,        \* sorted asset paths (gui*.py __init__, main.py:143)
    decodable,               \* the asset paths cv2.imread / mock_scanner can decode
    current_booklet_images,  \* captured pages
    mock_image_index,        \* ScannerApp.mock_image_index
    capture_enabled,         \* capture_button.isEnabled()
    entry_pages,             \* current_booklet_images when the latest main / finish_to_pdf
                             \* reached its processing part
    entry_index,             \* mock_image_index at that moment
    extracted,               \* the latest operation called extract_reg_number
    dialog,                  \* what QInputDialog.getText returned in the latest operation
    pdf_request,             \* arguments of the create_pdf call of the latest operation
    pdf_path,                \* what that create_pdf call returned
    pdf_files                \* the PDFs in output/, as [name, pages] records

extractVars == <<image, called, same, cropped, ocr_calls, text, ret, printed,
                 logged, wrote, diagFile, ocr_memo>>
bookletVars == <<current_booklet_images, mock_image_index, capture_enabled,
                 entry_pages, entry_index, extracted, dialog, pdf_request, pdf_path,
                 pdf_files>>
vars == <<REG_NUM_ROI, extractVars, app, op, mock_image_paths, decodable, bookletVars>>

--------------------------------------------------------------------------
(* Python values *)

None == {}
Some(v) == {v}
The(s) == CHOOSE v \in s : TRUE

(* str: the characters the model draws OCR output from *)
DigitChars == {"0", "1", "2", "3", "4", "5", "6", "7", "8", "9"}
Whitespace == {" ", "\t", "\n", "\r", "\f"}

--------------------------------------------------------------------------
(* Bounds *)

MaxLen == 5       \* longest OCR text body
MaxPad == 1       \* longest run of whitespace around the body
MaxW == 2         \* widest image of SpecROI
MaxH == 1         \* tallest image of SpecROI
PageW == 400      \* width of the page images of Spec and SpecBooklet
PageH == 200      \* height of the page images of Spec and SpecBooklet
MaxAssets == 2    \* most files in assets/
MaxPages == 3     \* most pages captured into one booklet

(* Program constant: the length floor of main.py:101 *)
MinLen == 5

--------------------------------------------------------------------------
(* Input sets *)

Alphabet == {"0", "7", "a", " "}

Base(n) == [i \in 1..n |-> "7"]
Pad(n) == [i \in 1..n |-> IF i % 2 = 1 THEN " " ELSE "\n"]

\* body lengths: none, one, and those around the floor of main.py:101
Lens == {0, 1} \cup ((MinLen - 1)..MaxLen)

\* runs of a digit with at most one other character put anywhere in them
Bodies ==
    {Base(n) : n \in Lens}
    \cup UNION {{[Base(n) EXCEPT ![p] = c] : p \in 1..n, c \in Alphabet} : n \in Lens}

\* a run of a digit with whitespace before and after it
Padded == {Pad(l) \o Base(n) \o Pad(r) : l \in 0..MaxPad, r \in 0..MaxPad, n \in Lens}

\* the OCR answers the specification's examples use
SampleTexts ==
    { <<"1", "2", "3", "4", "5", "6">>,
      <<" ", "1", "2", "a", "4", " ">>,
      <<"1", "2", "3">>,
      <<"0", "0", "1", "2", "3", "\n">>,
      <<>> }

\* what the OCR engine may answer in Spec
Texts == Bodies \cup Padded \cup SampleTexts

Page(i) == [id |-> i, h |-> PageH, w |-> PageW]
PageImages == {None, Some(Page(1)), Some(Page(2))}

ROIImages == {None} \cup {Some([id |-> 1, h |-> hh, w |-> ww]) : hh \in 1..MaxH, ww \in 1..MaxW}

\* negative offsets and sizes are drawn on the x axis, which the code treats
\* as it treats the y axis
ROIs == {<<x, y, w, h>> : x \in -MaxW..MaxW, y \in 0..MaxH,
                          w \in -1..MaxW, h \in 0..MaxH}

--------------------------------------------------------------------------
(* str methods *)

RECURSIVE lstrip(_)
lstrip(s) == IF s # <<>> /\ Head(s) \in Whitespace THEN lstrip(Tail(s)) ELSE s

RECURSIVE rstrip(_)
rstrip(s) ==
    IF s # <<>> /\ s[Len(s)] \in Whitespace THEN rstrip(SubSeq(s, 1, Len(s) - 1)) ELSE s

\* str.strip()
strip_left(s) == lstrip(s)
strip(s) == rstrip(lstrip(s))

\* str.isdigit(): at least one character and every character a digit
isdigit(s) == s # <<>> /\ \A i \in 1..Len(s) : s[i] \in DigitChars

--------------------------------------------------------------------------
(* numpy basic slicing a[start:stop] on an axis of length n *)

ClipIndex_open(i, n) ==
    IF i < 0 THEN (IF i + n < 0 THEN 0 ELSE i + n) ELSE i

ClipIndex(i, n) ==
    IF i < 0 THEN (IF i + n < 0 THEN 0 ELSE i + n) ELSE (IF i > n THEN n ELSE i)

SliceLen(start, stop, n) ==
    LET lo == ClipIndex(start, n)
        hi == ClipIndex(stop, n)
    IN  IF hi > lo THEN hi - lo ELSE 0

\* image[y:y+h, x:x+w]
Crop(img, roi) ==
    [src  |-> img.id,
     rows |-> SliceLen(roi[2], roi[2] + roi[4], img.h),
     cols |-> SliceLen(roi[1], roi[1] + roi[3], img.w),
     ch   |-> 3,
     two_level |-> FALSE]

\* ndarray.size
Size(c) == c.rows * c.cols * c.ch

\* cv2.cvtColor(cropped_image, cv2.COLOR_BGR2GRAY)
cvtColor(c) == [c EXCEPT !.ch = 1]

\* cv2.threshold(gray, 150, 255, THRESH_BINARY_INV + THRESH_OTSU)[1]
threshold(gray) == [gray EXCEPT !.two_level = TRUE]

--------------------------------------------------------------------------
(* main.py: the extraction *)

\* cv2.imwrite(processed_image_path, binary); ok is whether the file system
\* accepted the write (imwrite returns False otherwise, and the code goes on)
imwrite(binary, ok) == IF ok THEN Some(binary) ELSE diagFile

\* the ROI check of main.py:61
RoiInvalid_and(roi) == roi[3] <= 0 /\ roi[4] <= 0
RoiInvalid(roi) == roi[3] <= 0 \/ roi[4] <= 0

\* the check of main.py:67
CropEmpty_rows(c) == c.rows = 0
CropEmpty(c) == Size(c) = 0

\* what preprocess_image_for_ocr returns when it gives up
GiveUp(didCrop, lines) ==
    [binary |-> None, cropped |-> didCrop, printed |-> lines, wrote |-> FALSE,
     file |-> diagFile]

\* a variant that hands back the file found on disk before this call's write
preprocess_stale(img, ok) ==
    IF img = None THEN GiveUp(FALSE, <<>>)
    ELSE IF RoiInvalid(REG_NUM_ROI) THEN GiveUp(FALSE, <<"roi_error">>)
    ELSE LET cropped_image == Crop(The(img), REG_NUM_ROI)
             binary == threshold(cvtColor(cropped_image))
         IN  IF CropEmpty(cropped_image) THEN GiveUp(TRUE, <<"crop_empty">>)
             ELSE [binary |-> IF diagFile # None THEN diagFile ELSE Some(binary),
                   cropped |-> TRUE, printed |-> <<"saved">>,
                   wrote |-> TRUE, file |-> imwrite(binary, ok)]

\* a variant that looks at the ROI before it looks at the image
preprocess_roi_first(img, ok) ==
    IF RoiInvalid(REG_NUM_ROI) THEN GiveUp(FALSE, <<"roi_error">>)
    ELSE IF img = None THEN GiveUp(FALSE, <<>>)
    ELSE LET cropped_image == Crop(The(img), REG_NUM_ROI)
             binary == threshold(cvtColor(cropped_image))
         IN  IF CropEmpty(cropped_image) THEN GiveUp(TRUE, <<"crop_empty">>)
             ELSE [binary |-> Some(binary), cropped |-> TRUE, printed |-> <<"saved">>,
                   wrote |-> TRUE, file |-> imwrite(binary, ok)]

\* preprocess_image_for_ocr(image): what it returns and what it does
preprocess_image_for_ocr(img, ok) ==
    IF img = None THEN GiveUp(FALSE, <<>>)
    ELSE IF RoiInvalid(REG_NUM_ROI) THEN GiveUp(FALSE, <<"roi_error">>)
    ELSE LET cropped_image == Crop(The(img), REG_NUM_ROI)
             binary == threshold(cvtColor(cropped_image))
         IN  IF CropEmpty(cropped_image) THEN GiveUp(TRUE, <<"crop_empty">>)
             ELSE [binary |-> Some(binary), cropped |-> TRUE, printed |-> <<"saved">>,
                   wrote |-> TRUE, file |-> imwrite(binary, ok)]

\* pytesseract.image_to_string(processed_image, config=...): the engine is a
\* function of its input, so the input of its latest call gets that call's
\* answer again; t is its answer to any other input
image_to_string(processed_image, t) ==
    IF ocr_memo # None /\ The(ocr_memo)[1] = processed_image
    THEN The(ocr_memo)[2]
    ELSE t

\* the check of main.py:101
Invalid_off_by_one(reg_number) == ~isdigit(reg_number) \/ Len(reg_number) <= MinLen
Invalid(reg_number) == ~isdigit(reg_number) \/ Len(reg_number) < MinLen

\* extract_reg_number(image): its return value and everything it does
extract_reg_number(img, t, ok) ==
    LET pre == preprocess_image_for_ocr(img, ok)
    IN  IF pre.binary = None
        THEN [ret |-> None, ocr_calls |-> 0, text |-> None, logged |-> <<>>,
              memo |-> ocr_memo, pre |-> pre]
        ELSE LET processed_image == The(pre.binary)
                 raw == image_to_string(processed_image, t)
                 reg_number == strip(raw)
             IN  IF Invalid(reg_number)
                 THEN [ret |-> None, ocr_calls |-> 1, text |-> Some(raw),
                       logged |-> <<reg_number>>,
                       memo |-> Some(<<processed_image, raw>>), pre |-> pre]
                 ELSE [ret |-> Some(reg_number), ocr_calls |-> 1, text |-> Some(raw),
                       logged |-> <<>>,
                       memo |-> Some(<<processed_image, raw>>), pre |-> pre]

\* the state after a call extract_reg_number(img)
Call(img, t, ok) ==
    LET r == extract_reg_number(img, t, ok)
    IN  /\ image' = img
        /\ called' = TRUE
        /\ same' = (called /\ image = img)
        /\ cropped' = r.pre.cropped
        /\ ocr_calls' = r.ocr_calls
        /\ text' = r.text
        /\ ret' = r.ret
        /\ printed' = r.pre.printed
        /\ logged' = r.logged
        /\ wrote' = r.pre.wrote
        /\ diagFile' = r.pre.file
        /\ ocr_memo' = r.memo

\* a direct call of the library function
Extract(img, t, ok) ==
    /\ app = "lib"
    /\ Call(img, t, ok)
    /\ op' = "extract"
    /\ UNCHANGED <<REG_NUM_ROI, app, mock_image_paths, decodable, bookletVars>>

--------------------------------------------------------------------------
(* main.py: create_pdf and main *)

\* cv2.imread(path): None when the file does not decode
imread(path) == IF path \in decodable THEN Some(Page(path)) ELSE None

\* Python truth value of an optional str
Truthy(s) == s # None /\ The(s) # <<>>

\* [p for p in pages if p is not None], as paths
RECURSIVE NotNone(_)
NotNone(pages) ==
    IF pages = <<>> THEN <<>>
    ELSE IF Head(pages) = None THEN NotNone(Tail(pages))
    ELSE <<The(Head(pages))>> \o NotNone(Tail(pages))

\* f"{reg_number}.pdf" in OUTPUT_FOLDER
PdfName(reg_number) == reg_number \o <<".", "p", "d", "f">>

\* a variant that keeps only append_images
create_pdf_tail(image_paths, reg_number, save_ok) ==
    IF image_paths = <<>>
    THEN [path |-> None, raised |-> FALSE, files |-> pdf_files]
    ELSE IF \E i \in 1..Len(image_paths) : image_paths[i] \notin decodable
    THEN [path |-> None, raised |-> TRUE, files |-> pdf_files]
    ELSE IF save_ok
    THEN [path |-> Some(PdfName(reg_number)), raised |-> FALSE,
          files |-> {f \in pdf_files : f.name # PdfName(reg_number)}
                    \cup {[name |-> PdfName(reg_number), pages |-> Tail(image_paths)]}]
    ELSE [path |-> None, raised |-> FALSE, files |-> pdf_files]

\* a variant that answers with the path although save failed
create_pdf_path_on_error(image_paths, reg_number, save_ok) ==
    IF image_paths = <<>>
    THEN [path |-> None, raised |-> FALSE, files |-> pdf_files]
    ELSE IF \E i \in 1..Len(image_paths) : image_paths[i] \notin decodable
    THEN [path |-> None, raised |-> TRUE, files |-> pdf_files]
    ELSE IF save_ok
    THEN [path |-> Some(PdfName(reg_number)), raised |-> FALSE,
          files |-> {f \in pdf_files : f.name # PdfName(reg_number)}
                    \cup {[name |-> PdfName(reg_number), pages |-> image_paths]}]
    ELSE [path |-> Some(PdfName(reg_number)), raised |-> FALSE, files |-> pdf_files]

\* create_pdf(image_paths, reg_number); save_ok is whether first_image.save
\* succeeds.  Image.open is outside the try, so a page that does not decode
\* raises out of create_pdf.
create_pdf(image_paths, reg_number, save_ok) ==
    IF image_paths = <<>>
    THEN [path |-> None, raised |-> FALSE, files |-> pdf_files]
    ELSE IF \E i \in 1..Len(image_paths) : image_paths[i] \notin decodable
    THEN [path |-> None, raised |-> TRUE, files |-> pdf_files]
    ELSE IF save_ok
    THEN [path |-> Some(PdfName(reg_number)), raised |-> FALSE,
          files |-> {f \in pdf_files : f.name # PdfName(reg_number)}
                    \cup {[name |-> PdfName(reg_number), pages |-> image_paths]}]
    ELSE [path |-> None, raised |-> FALSE, files |-> pdf_files]

\* the create_pdf call of an operation and what it leaves behind
CreatePdf(image_paths, reg_number, save_ok) ==
    LET r == create_pdf(image_paths, reg_number, save_ok)
    IN  /\ pdf_request' = Some([image_paths |-> image_paths, reg_number |-> reg_number])
        /\ pdf_path' = r.path
        /\ pdf_files' = r.files

NoPdfCall == pdf_request' = None /\ pdf_path' = None /\ UNCHANGED pdf_files

NoExtractCall == extracted' = FALSE /\ UNCHANGED extractVars

Paths(seq) == [i \in 1..Len(seq) |-> Some(seq[i])]

\* main(): the whole run
Main(t, ok, save_ok) ==
    /\ app = "main"
    /\ op = "init"
    /\ LET sample_images == mock_image_paths
           captured == IF \A i \in 1..Len(sample_images) : imread(sample_images[i]) # None
                       THEN Paths(sample_images)
                       ELSE <<>>
       IN  /\ current_booklet_images' = captured
           /\ entry_pages' = captured
           /\ IF captured = <<>>
              THEN /\ op' = "main"
                   /\ NoExtractCall
                   /\ NoPdfCall
              ELSE LET first_page_image == imread(The(captured[1]))
                       reg_number == extract_reg_number(first_page_image, t, ok).ret
                   IN  /\ Call(first_page_image, t, ok)
                       /\ extracted' = TRUE
                       /\ IF Truthy(reg_number)
                          THEN /\ CreatePdf(NotNone(captured), The(reg_number), save_ok)
                               /\ op' = IF create_pdf(NotNone(captured), The(reg_number),
                                                      save_ok).raised
                                        THEN "crash" ELSE "main"
                          ELSE /\ NoPdfCall
                               /\ op' = "main"
    /\ UNCHANGED <<REG_NUM_ROI, app, mock_image_paths, decodable, mock_image_index,
                   capture_enabled, entry_index, dialog>>


--------------------------------------------------------------------------
(* gui_o.py: ScannerApp *)

\* update_live_viewer(): the one thing it does besides drawing is to disable
\* the capture button once the mock images are used up
GuiO_update_live_viewer(index, enabled) ==
    IF index < Len(mock_image_paths) THEN enabled ELSE FALSE

GuiO_capture_page ==
    /\ app = "gui_o"
    /\ op # "crash"
    /\ capture_enabled
    /\ IF mock_image_index < Len(mock_image_paths)
       THEN /\ current_booklet_images' =
                   Append(current_booklet_images, Some(mock_image_paths[mock_image_index + 1]))
            /\ mock_image_index' = mock_image_index + 1
            /\ capture_enabled' = GuiO_update_live_viewer(mock_image_index + 1, capture_enabled)
       ELSE UNCHANGED <<current_booklet_images, mock_image_index, capture_enabled>>
    /\ op' = "capture_page"
    /\ UNCHANGED <<REG_NUM_ROI, extractVars, app, mock_image_paths, decodable, entry_pages,
                   entry_index, extracted, dialog, pdf_request, pdf_path, pdf_files>>

GuiO_finish_to_pdf(t, ok, save_ok) ==
    /\ app = "gui_o"
    /\ op # "crash"
    /\ entry_pages' = current_booklet_images
    /\ entry_index' = mock_image_index
    /\ IF current_booklet_images = <<>>
       THEN /\ op' = "finish_to_pdf"
            /\ NoExtractCall
            /\ NoPdfCall
            /\ UNCHANGED <<current_booklet_images, mock_image_index, capture_enabled>>
       ELSE LET first_page_path == The(current_booklet_images[1])
                first_page_image == imread(first_page_path)
                reg_number == extract_reg_number(first_page_image, t, ok).ret
                pdf == create_pdf(NotNone(current_booklet_images), The(reg_number), save_ok)
            IN  /\ Call(first_page_image, t, ok)
                /\ extracted' = TRUE
                /\ IF Truthy(reg_number)
                   THEN /\ CreatePdf(NotNone(current_booklet_images), The(reg_number), save_ok)
                        /\ op' = IF pdf.raised THEN "crash" ELSE "finish_to_pdf"
                        /\ IF pdf.path # None
                           THEN /\ current_booklet_images' = <<>>
                                /\ mock_image_index' = 0
                                /\ capture_enabled' = GuiO_update_live_viewer(0, capture_enabled)
                           ELSE UNCHANGED <<current_booklet_images, mock_image_index,
                                            capture_enabled>>
                   ELSE /\ NoPdfCall
                        /\ op' = "finish_to_pdf"
                        /\ UNCHANGED <<current_booklet_images, mock_image_index,
                                       capture_enabled>>
    /\ UNCHANGED <<REG_NUM_ROI, app, mock_image_paths, decodable, dialog>>

--------------------------------------------------------------------------
(* gui.py: ScannerApp *)

\* what the user can type into the dialog, and the combo box entries used
DialogTexts == {<<>>, <<"1", "2", "3", "4", "5", "6">>, <<"x">>}
SubjectCodes == {<<"8", "1">>, <<"8", "2">>}

Gui_capture_page ==
    /\ app = "gui"
    /\ op # "crash"
    /\ Len(current_booklet_images) < MaxPages
    /\ IF mock_image_index < Len(mock_image_paths)
       THEN /\ current_booklet_images' =
                   Append(current_booklet_images, Some(mock_image_paths[mock_image_index + 1]))
            /\ mock_image_index' = mock_image_index + 1
       ELSE /\ current_booklet_images' = Append(current_booklet_images, None)
            /\ UNCHANGED mock_image_index
    /\ op' = "capture_page"
    /\ UNCHANGED <<REG_NUM_ROI, extractVars, app, mock_image_paths, decodable,
                   capture_enabled, entry_pages, entry_index, extracted, dialog,
                   pdf_request, pdf_path, pdf_files>>

Gui_finish_to_pdf(ok_pressed, reg_number, subject_code, save_ok) ==
    /\ app = "gui"
    /\ op # "crash"
    /\ ok_pressed \/ reg_number = <<>>
    /\ entry_pages' = current_booklet_images
    /\ entry_index' = mock_image_index
    /\ NoExtractCall
    /\ IF current_booklet_images = <<>>
       THEN /\ op' = "finish_to_pdf"
            /\ dialog' = None
            /\ NoPdfCall
            /\ UNCHANGED <<current_booklet_images, mock_image_index>>
       ELSE /\ dialog' = Some(<<reg_number, ok_pressed>>)
            /\ IF ok_pressed /\ reg_number # <<>>
               THEN LET final_pdf_name == reg_number \o <<"_">> \o subject_code
                        actual_images == NotNone(current_booklet_images)
                        pdf == create_pdf(actual_images, final_pdf_name, save_ok)
                    IN  IF actual_images = <<>>
                        THEN /\ current_booklet_images' = <<>>
                             /\ mock_image_index' = 0
                             /\ NoPdfCall
                             /\ op' = "finish_to_pdf"
                        ELSE /\ CreatePdf(actual_images, final_pdf_name, save_ok)
                             /\ op' = IF pdf.raised THEN "crash" ELSE "finish_to_pdf"
                             /\ IF pdf.path # None
                                THEN /\ current_booklet_images' = <<>>
                                     /\ mock_image_index' = 0
                                ELSE UNCHANGED <<current_booklet_images, mock_image_index>>
               ELSE /\ NoPdfCall
                    /\ op' = "finish_to_pdf"
                    /\ UNCHANGED <<current_booklet_images, mock_image_index>>
    /\ UNCHANGED <<REG_NUM_ROI, app, mock_image_paths, decodable, capture_enabled>>

--------------------------------------------------------------------------
(* Specifications *)

\* a diagnostic image an earlier run of the program left in output/
StaleFile == [src |-> 0, rows |-> 1, cols |-> 1, ch |-> 1, two_level |-> TRUE]

InitCall ==
    /\ image = None
    /\ called = FALSE
    /\ same = FALSE
    /\ cropped = FALSE
    /\ ocr_calls = 0
    /\ text = None
    /\ ret = None
    /\ printed = <<>>
    /\ logged = <<>>
    /\ wrote = FALSE
    /\ diagFile \in {None, Some(StaleFile)}
    /\ ocr_memo = None

InitBooklet ==
    /\ op = "init"
    /\ current_booklet_images = <<>>
    /\ mock_image_index = 0
    /\ capture_enabled = IF app = "gui_o" THEN GuiO_update_live_viewer(0, TRUE) ELSE TRUE
    /\ entry_pages = <<>>
    /\ entry_index = 0
    /\ extracted = FALSE
    /\ dialog = None
    /\ pdf_request = None
    /\ pdf_path = None
    /\ pdf_files = {}

\* extract_reg_number called directly, with the ROI main.py:30 sets
Init ==
    /\ REG_NUM_ROI = <<60, 140, 280, 40>>
    /\ app = "lib"
    /\ mock_image_paths = <<>>
    /\ decodable = {}
    /\ InitCall
    /\ InitBooklet

Next == \E img \in PageImages, t \in Texts, ok \in BOOLEAN : Extract(img, t, ok)

Spec == Init /\ [][Next]_vars

\* extract_reg_number called directly, under every ROI a deployment may set
InitROI ==
    /\ REG_NUM_ROI \in ROIs
    /\ app = "lib"
    /\ mock_image_paths = <<>>
    /\ decodable = {}
    /\ InitCall
    /\ InitBooklet

NextROI == \E img \in ROIImages, t \in SampleTexts, ok \in BOOLEAN : Extract(img, t, ok)

SpecROI == InitROI /\ [][NextROI]_vars

\* the three programs over the files of assets/
InitBookletApp ==
    /\ REG_NUM_ROI = <<60, 140, 280, 40>>
    /\ app \in {"main", "gui_o", "gui"}
    /\ \E n \in 0..MaxAssets :
          /\ mock_image_paths = [i \in 1..n |-> i]
          /\ decodable \in SUBSET (1..n)
    /\ InitCall
    /\ InitBooklet

NextBooklet ==
    \/ \E t \in SampleTexts, ok \in BOOLEAN, save_ok \in BOOLEAN : Main(t, ok, save_ok)
    \/ GuiO_capture_page
    \/ \E t \in SampleTexts, ok \in BOOLEAN, save_ok \in BOOLEAN :
          GuiO_finish_to_pdf(t, ok, save_ok)
    \/ Gui_capture_page
    \/ \E ok_pressed \in BOOLEAN, reg_number \in DialogTexts, subject_code \in SubjectCodes,
          save_ok \in BOOLEAN :
          Gui_finish_to_pdf(ok_pressed, reg_number, subject_code, save_ok)

SpecBooklet == InitBookletApp /\ [][NextBooklet]_vars

--------------------------------------------------------------------------
(* Vocabulary of the properties *)

\* the indices of an axis of length n that the slice [start:stop] selects
Selected(start, stop, n) ==
    {i \in 0..(n - 1) : /\ (IF start < 0 THEN start + n ELSE start) <= i
                         /\ i < (IF stop < 0 THEN stop + n ELSE stop)}

RoiX == REG_NUM_ROI[1]
RoiY == REG_NUM_ROI[2]
RoiW == REG_NUM_ROI[3]
RoiH == REG_NUM_ROI[4]

RoiPositive == RoiW > 0 /\ RoiH > 0

\* the crop of img by the ROI holds at least one pixel
CropHasPixels(img) ==
    /\ Selected(RoiY, RoiY + RoiH, img.h) # {}
    /\ Selected(RoiX, RoiX + RoiW, img.w) # {}

\* the ROI rectangle lies fully within img
Within(img) ==
    /\ RoiX >= 0
    /\ RoiY >= 0
    /\ RoiX + RoiW <= img.w
    /\ RoiY + RoiH <= img.h

\* the latest call got as far as the OCR engine can be reached
Processable == image # None /\ RoiPositive /\ CropHasPixels(The(image))

\* the binarized crop of the latest call's image
BinarizedCrop ==
    [src |-> The(image).id,
     rows |-> Cardinality(Selected(RoiY, RoiY + RoiH, The(image).h)),
     cols |-> Cardinality(Selected(RoiX, RoiX + RoiW, The(image).w)),
     ch |-> 1,
     two_level |-> TRUE]

AllWhitespace(s) == \A i \in 1..Len(s) : s[i] \in Whitespace

\* t is raw without its leading and trailing whitespace
IsStripOf(t, raw) ==
    /\ t = <<>> \/ (t[1] \notin Whitespace /\ t[Len(t)] \notin Whitespace)
    /\ \E i \in 0..Len(raw), j \in 0..Len(raw) :
          /\ i + j <= Len(raw)
          /\ AllWhitespace(SubSeq(raw, 1, i))
          /\ AllWhitespace(SubSeq(raw, Len(raw) - j + 1, Len(raw)))
          /\ t = SubSeq(raw, i + 1, Len(raw) - j)

Stripped(raw) == CHOOSE t \in {SubSeq(raw, i, j) : i \in 1..(Len(raw) + 1), j \in 0..Len(raw)} :
                    IsStripOf(t, raw)

\* non-empty, digits only, at least five characters
LooksLikeRegNumber(t) ==
    /\ t # <<>>
    /\ \A i \in 1..Len(t) : t[i] \in DigitChars
    /\ Len(t) >= 5

\* the latest call reached the OCR engine and its answer was rejected
ValidationFailed == called /\ text # None /\ ~LooksLikeRegNumber(Stripped(The(text)))

--------------------------------------------------------------------------
(* C1: for a non-null image with a non-empty crop and any OCR answer,     *)
(* extract_reg_number returns the answer stripped of leading and trailing *)
(* whitespace, character for character, exactly when the stripped text is *)
(* non-empty, all digits and at least five characters long; otherwise it  *)
(* returns the failure value None.                                        *)
C1_SuccessIffValid ==
    (called /\ Processable) =>
        /\ text # None
        /\ LET t == Stripped(The(text))
           IN  /\ IsStripOf(t, The(text))
               /\ LooksLikeRegNumber(t) => ret = Some(t)
               /\ ~LooksLikeRegNumber(t) => ret = None

\* a success whose raw text had whitespace around it and a leading zero in it
C1_Witness ==
    /\ called /\ Processable
    /\ ret # None
    /\ The(ret) # The(text)
    /\ The(ret)[1] = "0"

(* C2: when the ROI rectangle does not lie fully within the image (partly *)
(* or entirely outside), extract fails with the empty-crop error and does *)
(* not invoke the OCR engine.                                             *)
C2_OutOfBoundsFails ==
    (called /\ image # None /\ RoiPositive /\ ~Within(The(image))) =>
        /\ ret = None
        /\ printed = <<"crop_empty">>
        /\ ocr_calls = 0

C4_ExactlyOneOcrCall == called => ocr_calls = 1

(* C4, amended: a call of extract makes at most one OCR call: exactly one *)
(* when the image is non-null, the ROI positive and the crop non-empty,   *)
(* and none otherwise.                                                    *)
C4_OneOcrCallIffProcessable ==
    called =>
        /\ ocr_calls \in {0, 1}
        /\ ocr_calls = 1 <=> Processable
        /\ ocr_calls = 1 <=> text # None

\* a call with an image and a positive ROI that made no OCR call
C4_Witness == called /\ image # None /\ RoiPositive /\ ocr_calls = 0

(* C5, as claimed: when validation fails, the returned value carries the  *)
(* rejected, whitespace-trimmed text.                                     *)
C5_ReturnCarriesRejectedText ==
    ValidationFailed => \E v \in ret : v = Stripped(The(text))

(* C5, amended: when validation fails, extract returns None, the value of *)
(* every other failure, and the rejected text after whitespace trimming   *)
(* goes to the log as one warning; nothing of it is in the return value.  *)
C5_RejectedTextIsLogged ==
    ValidationFailed =>
        /\ ret = None
        /\ logged = <<Stripped(The(text))>>

\* the example of the specification: " 12a4 " is rejected as "12a4"
C5_Witness ==
    /\ ValidationFailed
    /\ text = Some(<<" ", "1", "2", "a", "4", " ">>)
    /\ logged = << <<"1", "2", "a", "4">> >>

(* C6, as claimed (the part the code does not have): what a null-image    *)
(* call returns differs from what a call that failed for another reason   *)
(* returned.                                                              *)
C6_NullFailureIsDistinct ==
    [][(called /\ image # None /\ ret = None /\ image' = None) => ret' # ret]_vars

(* C6, amended: extract called with a null image returns None for any     *)
(* ROI, the same value as every other failure, without cropping, printing,*)
(* logging, writing the diagnostic image or invoking the OCR engine.      *)
C6_NullImageFailsAtOnce ==
    (called /\ image = None) =>
        /\ ret = None
        /\ ~cropped
        /\ ~wrote
        /\ ocr_calls = 0
        /\ printed = <<>>
        /\ logged = <<>>

\* a null-image call under a ROI of width or height zero or less
C6_Witness == called /\ image = None /\ ~RoiPositive

(* C7: extract called with a non-null image and a ROI whose width or      *)
(* height is zero or negative fails with the ROI error on every call,     *)
(* before any crop and without invoking the OCR engine.                   *)
C7_InvalidRoiFails ==
    (called /\ image # None /\ ~RoiPositive) =>
        /\ ret = None
        /\ printed = <<"roi_error">>
        /\ ~cropped
        /\ ocr_calls = 0
        /\ ~wrote

\* a call with an image under a ROI of width zero and positive height
C7_Witness == called /\ image # None /\ RoiW = 0 /\ RoiH > 0 /\ ret = None

(* C8: a call of extract with the image of the call before it returns     *)
(* what that call returned, whatever earlier calls left behind.           *)
C8_Idempotent ==
    [][(called /\ op' = "extract" /\ image' = image) => ret' = ret]_vars

\* a second call with the same image that succeeded, the file of the first on disk
C8_Witness == same /\ image # None /\ ret # None /\ diagFile # None

--------------------------------------------------------------------------
(* Booklet properties *)

\* the PDF the latest create_pdf call asked for is in output/
PdfOnDisk ==
    /\ pdf_request # None
    /\ [name |-> PdfName(The(pdf_request).reg_number),
        pages |-> The(pdf_request).image_paths] \in pdf_files

\* the latest operation made a PDF out of an extracted registration number
MadeFromExtraction ==
    /\ extracted
    /\ entry_pages # <<>>
    /\ image = imread(The(entry_pages[1]))
    /\ ret # None
    /\ pdf_path = Some(PdfName(The(ret)))
    /\ [name |-> PdfName(The(ret)), pages |-> NotNone(entry_pages)] \in pdf_files
    /\ Len(NotNone(entry_pages)) = Len(entry_pages)

(* C9, as claimed: in main and in the GUI, a PDF is created only from a   *)
(* registration number extracted from the first captured page, is named   *)
(* after it and holds all captured pages in order; none is created when   *)
(* extraction fails.                                                      *)
C9_PdfOnlyFromExtraction ==
    /\ pdf_path # None => MadeFromExtraction
    /\ (extracted /\ ret = None) => pdf_path = None

(* C9, amended: that holds of main and of gui_o.py.  gui.py extracts      *)
(* nothing: its PDF is made when the user confirms a non-empty name, is   *)
(* named <name>_<subject code>.pdf and holds, in capture order, the       *)
(* captured pages that have an image.                                     *)
C9_PdfNaming ==
    /\ app \in {"main", "gui_o"} =>
          /\ pdf_path # None => MadeFromExtraction
          /\ (extracted /\ ret = None) => pdf_path = None
    /\ app = "gui" =>
          /\ ~extracted
          /\ pdf_path # None =>
                /\ dialog # None
                /\ The(dialog)[2]
                /\ The(dialog)[1] # <<>>
                /\ \E subject_code \in SubjectCodes :
                      LET stem == The(dialog)[1] \o <<"_">> \o subject_code
                      IN  /\ pdf_path = Some(PdfName(stem))
                          /\ [name |-> PdfName(stem), pages |-> NotNone(entry_pages)]
                                 \in pdf_files

\* gui_o.py made a PDF of two pages
C9_Witness ==
    /\ app = "gui_o"
    /\ op = "finish_to_pdf"
    /\ pdf_path # None
    /\ Len(entry_pages) = 2

\* finish_to_pdf of gui.py ran into captured pages none of which has an image
NoValidImages ==
    /\ app = "gui"
    /\ entry_pages # <<>>
    /\ NotNone(entry_pages) = <<>>
    /\ dialog # None
    /\ The(dialog)[2]
    /\ The(dialog)[1] # <<>>

Emptied == current_booklet_images = <<>> /\ mock_image_index = 0
Kept == current_booklet_images = entry_pages /\ mock_image_index = entry_index

(* C10, as claimed: finish_to_pdf empties the page list and resets the    *)
(* index only when a PDF was created, and leaves both as they were in     *)
(* every other outcome.                                                   *)
C10_EmptiedOnlyOnPdf ==
    (app \in {"gui_o", "gui"} /\ op = "finish_to_pdf") =>
        IF pdf_path # None THEN Emptied /\ PdfOnDisk ELSE Kept

(* C10, amended: finish_to_pdf empties the page list and resets the index *)
(* when a PDF was created and, in gui.py, also when none of the captured  *)
(* pages has an image; in every other outcome both are left as they were. *)
C10_EmptiedOnPdfOrNoImages ==
    (app \in {"gui_o", "gui"} /\ op \in {"finish_to_pdf", "crash"}) =>
        IF pdf_path # None THEN Emptied /\ PdfOnDisk
        ELSE IF NoValidImages THEN Emptied
        ELSE Kept

\* a PDF could not be saved and the two captured pages are still there
C10_Witness ==
    /\ app \in {"gui_o", "gui"}
    /\ op = "finish_to_pdf"
    /\ pdf_request # None
    /\ pdf_path = None
    /\ Len(current_booklet_images) = 2

============================================================================
